---- MODULE Spec2Model ----
(***************************************************************************)
(* A model of fastuot/numpy_berg.py: the Berg-entropy Sinkhorn loops,      *)
(* their proximal operator, the Lambert-W solver and the translation       *)
(* Newton solve.                                                           *)
(*                                                                         *)
(* The routines are pure numpy code without data-dependent control flow:   *)
(* the only branches are `rho2 is None` and `range(nits)`.  Each function  *)
(* of the source is written down as the list of its statements, compiled   *)
(* to the instructions of a stack machine (CompileBody) and run one        *)
(* instruction at a time (Step) the way Python does: operands left to      *)
(* right, statements in order, one frame of local names per call.          *)
(*                                                                         *)
(* A run is recorded on a "tape": entry k is the k-th operation executed   *)
(* and, for an operation that builds an array or a scalar, k is also the   *)
(* identity of the object it returns.  Operands are references: a positive *)
(* number is a tape entry, 0 is Python's None, a negative number is a      *)
(* literal of the source (a float of the table Lits, or an int).           *)
(* Floating-point values stay symbolic (the x given to init_lambertw and   *)
(* log_lambertw aside, which carries an integer value); shapes, object     *)
(* identities, counts and exceptions are concrete.                         *)
(***************************************************************************)
EXTENDS Integers, Sequences, FiniteSets, TLC

VARIABLES
    pc,      \* "idle": the caller is about to call; "done": a call returned
    call,    \* the routine called, the names of the arguments the caller
             \* passed and the number of objects it built for them
    mach,    \* [tape, err]: operations executed; err: an exception was raised
    ret      \* references the call returned (<<>> when it raised)

vars == <<pc, call, mach, ret>>

(***************************************************************************)
(* Bounds of the model.                                                    *)
(***************************************************************************)
MaxLen == 3        \* potentials and weights have 1..MaxLen entries
MaxNits == 2       \* explicit inner budgets nits range over 0..MaxNits
MaxX == 50         \* the x given to log_lambertw is np.full(n, v), v in -MaxX..MaxX
MaxVal == 2        \* values tried for a coordinate of f, g, C and for t

(***************************************************************************)
(* Program constants.                                                      *)
(***************************************************************************)
HalleySteps == 5         \* range(5) in log_lambertw
RescaleDefaultNits == 10 \* nits=10 of rescale_berg
HDefaultNits == 20       \* nits=20 of h_sinkhorn_loop
LnClamp == -40           \* the integer below ln(1e-17) = -39.14..., 1e-17 the
                         \* floor np.maximum(..., 1e-17) of log_lambertw

None == 0

\* The float literals of the source, as written there.
Lits == << "1.0", "-2.0", "0.0", "1e-6", "3.0", "6.0", "2.0", "9.0", "5.0",
           "1e-17", "0.5", "1.", "0." >>

Lit(s) == - (CHOOSE i \in 1..Len(Lits) : Lits[i] = s)

\* The int literals of the source (-1, 0, 1, 2, 5, 10, 20) and the budgets a
\* caller passes are Python ints; int n has a reference below the floats.
IntBase == Len(Lits) + 2

IntRef(n) == - (IntBase + n)

IsInt(r) == r < - Len(Lits)

IntOf(r) == - r - IntBase

(***************************************************************************)
(* Python computes a value once, before it uses it.  Below, a value v that *)
(* is used more than once is named by writing                              *)
(*     CHOOSE res \in {F(y) : y \in {v}} : TRUE                             *)
(* which is F(v), with v computed once.                                    *)
(***************************************************************************)

(***************************************************************************)
(* The machine: the tape, the exception flag, the stack of the frames of   *)
(* the calls in progress (innermost last) and the values of the last       *)
(* return statement.                                                       *)
(***************************************************************************)
Entry(op, lit, args, sh, d) ==
    [op |-> op, lit |-> lit, args |-> args, sh |-> sh, d |-> d]

EmptyMach == [tape |-> <<>>, err |-> FALSE, env |-> <<>>, ret |-> <<>>]

\* The shape of an operand: () for None, literals and scalars.
ShapeOf(mm, r) == IF r <= 0 THEN <<>> ELSE mm.tape[r].sh

\* Appends an operation; r is the reference of its result.  Once an
\* exception is raised nothing more executes.
Emit(mm, op, lit, args, sh) ==
    IF mm.err THEN [m |-> mm, r |-> None]
    ELSE [m |-> [mm EXCEPT !.tape = Append(@, Entry(op, lit, args, sh, Len(mm.env)))],
          r |-> Len(mm.tape) + 1]

\* numpy raises ValueError / IndexError: the calls in progress return nothing.
Raise(mm) == [m |-> [mm EXCEPT !.err = TRUE, !.ret = <<>>], r |-> None]

\* The value of a name: the innermost frame that binds it (the closures a, b
\* and pade read the names of the call that defines and calls them).
RECURSIVE LookupFrom(_, _, _)
LookupFrom(env, n, k) ==
    IF k = 0 THEN None
    ELSE IF n \in DOMAIN env[k].vars THEN env[k].vars[n]
    ELSE LookupFrom(env, n, k - 1)

Lookup(mm, n) == LookupFrom(mm.env, n, Len(mm.env))

\* name = value in the innermost frame.
Store(mm, n, r) ==
    IF mm.err THEN mm
    ELSE [mm EXCEPT !.env[Len(mm.env)].vars = (n :> r) @@ @]

(***************************************************************************)
(* numpy broadcasting: shapes are aligned on the right, a missing or unit  *)
(* dimension stretches, anything else is a ValueError.  The dimension -1   *)
(* stands for the data-dependent length of a boolean-mask selection.       *)
(***************************************************************************)
MaxOf(x, y) == IF x >= y THEN x ELSE y

Pad(s, k) == [i \in 1..k |-> IF i <= k - Len(s) THEN 1 ELSE s[i - (k - Len(s))]]

DimOK(x, y) == x = y \/ x = 1 \/ y = 1

Compatible(s1, s2) ==
    LET k == MaxOf(Len(s1), Len(s2))
    IN  \A i \in 1..k : DimOK(Pad(s1, k)[i], Pad(s2, k)[i])

Broadcast(s1, s2) ==
    LET k == MaxOf(Len(s1), Len(s2))
    IN  IF k = 0 THEN <<>>
        ELSE [i \in 1..k |-> IF Pad(s1, k)[i] = 1 THEN Pad(s2, k)[i] ELSE Pad(s1, k)[i]]

UnaryOps == {"neg", "exp", "log", "zeros_like"}

\* The operand is a Python number, not a numpy one: a literal of the source,
\* a Python float the caller passed, or Python arithmetic on such.  An array,
\* a numpy scalar (np.float64, a 0-d array) the caller passed and what a
\* numpy function returns (np.log, np.sum, ...) are numpy's.
RECURSIVE IsPy(_, _)
IsPy(mm, r) ==
    IF r < 0 THEN TRUE
    ELSE IF r = 0 THEN FALSE
    ELSE LET e == mm.tape[r]
         IN  CASE e.op = "pyfloat" -> TRUE
               [] e.op = "neg" -> IsPy(mm, e.args[1])
               [] e.op \in {"add", "sub", "mul", "div", "pow"} ->
                    IsPy(mm, e.args[1]) /\ IsPy(mm, e.args[2])
               [] OTHER -> FALSE

\* The number a float literal of the source denotes (those that are whole).
LitNum(r) ==
    CASE Lits[-r] \in {"0.0", "0."} -> 0
      [] Lits[-r] \in {"1.0", "1."} -> 1
      [] Lits[-r] = "-2.0" -> -2
      [] Lits[-r] = "2.0" -> 2
      [] Lits[-r] = "3.0" -> 3
      [] Lits[-r] = "5.0" -> 5
      [] Lits[-r] = "6.0" -> 6
      [] Lits[-r] = "9.0" -> 9

\* The value of a Python number is carried as a fraction n / d, d > 0; d = 0
\* stands for a value that is not carried (what numpy computes, and 1e-17,
\* whose denominator is beyond the integers of the model; the source
\* combines it with arrays only).
Rat(n, d) == [n |-> n, d |-> d]

Untracked == Rat(0, 0)

RECURSIVE RatPow(_, _)
RatPow(a, k) == IF k = 0 THEN Rat(1, 1) ELSE Rat(a.n * RatPow(a, k - 1).n, a.d * RatPow(a, k - 1).d)

\* Python's +, -, *, / and ** on the values a and b.
RatOp(op, a, b) ==
    IF a.d = 0 \/ b.d = 0 THEN Untracked
    ELSE CASE op = "add" -> Rat(a.n * b.d + b.n * a.d, a.d * b.d)
           [] op = "sub" -> Rat(a.n * b.d - b.n * a.d, a.d * b.d)
           [] op = "mul" -> Rat(a.n * b.n, a.d * b.d)
           [] op = "div" -> IF b.n = 0 THEN Untracked
                            ELSE IF b.n > 0 THEN Rat(a.n * b.d, a.d * b.n)
                            ELSE Rat(- a.n * b.d, - a.d * b.n)
           [] op = "pow" -> IF b.d = 1 /\ b.n >= 0 THEN RatPow(a, b.n) ELSE Untracked

\* The value of the Python number r: an int or a float literal of the
\* source, a float the caller passed, or what Python computed from such.
RECURSIVE PyVal(_, _)
PyVal(mm, r) ==
    IF r < 0
    THEN IF IsInt(r) THEN Rat(IntOf(r), 1)
         ELSE CASE Lits[-r] = "0.5" -> Rat(1, 2)
                [] Lits[-r] = "1e-6" -> Rat(1, 1000000)
                [] Lits[-r] = "1e-17" -> Untracked
                [] OTHER -> Rat(LitNum(r), 1)
    ELSE IF r = 0 THEN Untracked
    ELSE LET e == mm.tape[r]
         IN  CASE e.op = "pyfloat" -> Rat(e.args[1], 1)
               [] e.op = "neg" /\ IsPy(mm, r) ->
                    RatOp("sub", Rat(0, 1), PyVal(mm, e.args[1]))
               [] e.op \in {"add", "sub", "mul", "div", "pow"} /\ IsPy(mm, r) ->
                    RatOp(e.op, PyVal(mm, e.args[1]), PyVal(mm, e.args[2]))
               [] OTHER -> Untracked

\* The operand is a Python number equal to zero: a literal 0, 0. or 0.0, a
\* float the caller passed with the value 0.0, or a zero Python computed,
\* as 1. - (x / s) for the Python floats x = s.
IsZero(mm, r) == \E v \in {PyVal(mm, r)} : v.d # 0 /\ v.n = 0

BinaryOps == {"add", "sub", "mul", "div", "pow", "gt", "lt", "le", "ge", "eq",
              "and", "maximum"}

\* An operation of numpy on evaluated operands xs (mm is a machine value).
Apply(mm, op, xs) ==
    CASE op \in UnaryOps ->
           \* elementwise, and np.zeros_like: a new array of the same shape
           Emit(mm, op, "", xs, ShapeOf(mm, xs[1]))
      [] op \in BinaryOps ->
           \* Python's own float division raises ZeroDivisionError on a zero
           \* divisor; numpy's, which divides as soon as one operand is a
           \* numpy scalar or an array, gives inf or nan and goes on.
           \* Otherwise elementwise: a new array of the broadcast shape
           IF op = "div" /\ IsPy(mm, xs[1]) /\ IsPy(mm, xs[2]) /\ IsZero(mm, xs[2])
           THEN Raise(mm)
           ELSE IF Compatible(ShapeOf(mm, xs[1]), ShapeOf(mm, xs[2]))
           THEN Emit(mm, op, "", xs, Broadcast(ShapeOf(mm, xs[1]), ShapeOf(mm, xs[2])))
           ELSE Raise(mm)
      [] op = "sum" ->
           \* np.sum(x): a scalar
           Emit(mm, op, "", xs, <<>>)
      [] op = "select" ->
           \* x[mask]: a new 1-D array of the selected elements
           IF ShapeOf(mm, xs[1]) = ShapeOf(mm, xs[2])
           THEN Emit(mm, op, "", xs, <<-1>>)
           ELSE Raise(mm)
      [] op = "colaxis" ->
           \* v[:, None]: a view of v with a unit second axis
           IF Len(ShapeOf(mm, xs[1])) >= 1
           THEN Emit(mm, op, "", xs,
                     <<Head(ShapeOf(mm, xs[1])), 1>> \o Tail(ShapeOf(mm, xs[1])))
           ELSE Raise(mm)
      [] op = "rowaxis" ->
           \* v[None, :]: a view of v with a unit first axis
           IF Len(ShapeOf(mm, xs[1])) >= 1
           THEN Emit(mm, op, "", xs, <<1>> \o ShapeOf(mm, xs[1]))
           ELSE Raise(mm)
      [] op = "softmin_x" ->
           \* the reduction of sinkx over the rows of C: one value per column
           Emit(mm, op, "", xs, <<ShapeOf(mm, xs[1])[2]>>)
      [] op = "softmin_y" ->
           \* the reduction of sinky over the columns of C: one value per row
           Emit(mm, op, "", xs, <<ShapeOf(mm, xs[1])[1]>>)

\* target[mask] = rhs: writes INTO the object target; builds no object.
SetItem(mm, target, mask, rhs) ==
    IF mm.err THEN mm
    ELSE IF /\ ShapeOf(mm, target) = ShapeOf(mm, mask)
            /\ Compatible(<<-1>>, ShapeOf(mm, rhs))
            /\ Len(ShapeOf(mm, rhs)) <= 1
         THEN Emit(mm, "setitem", "", <<target, mask, rhs>>, <<>>).m
         ELSE Raise(mm).m

(***************************************************************************)
(* Expressions and statements of the source, as data.                      *)
(***************************************************************************)
Expr(op, name, args, kw) == [op |-> op, name |-> name, args |-> args, kw |-> kw]

V(n) == Expr("var", n, <<>>, <<>>)          \* a local name or parameter
F(s) == Expr("float", s, <<>>, <<>>)        \* a float literal
I(n) == Expr("int", "", <<n>>, <<>>)        \* an int literal

Neg(x) == Expr("neg", "", <<x>>, <<>>)      \* -x
Exp(x) == Expr("exp", "", <<x>>, <<>>)      \* np.exp(x)
Log(x) == Expr("log", "", <<x>>, <<>>)      \* np.log(x)
Sum(x) == Expr("sum", "", <<x>>, <<>>)      \* np.sum(x)
ZerosLike(x) == Expr("zeros_like", "", <<x>>, <<>>)
ColAxis(x) == Expr("colaxis", "", <<x>>, <<>>)   \* x[:, None]
RowAxis(x) == Expr("rowaxis", "", <<x>>, <<>>)   \* x[None, :]

Add(x, y) == Expr("add", "", <<x, y>>, <<>>)
Sub(x, y) == Expr("sub", "", <<x, y>>, <<>>)
Mul(x, y) == Expr("mul", "", <<x, y>>, <<>>)
Div(x, y) == Expr("div", "", <<x, y>>, <<>>)
Pow(x, y) == Expr("pow", "", <<x, y>>, <<>>)
Gt(x, y) == Expr("gt", "", <<x, y>>, <<>>)
Lt(x, y) == Expr("lt", "", <<x, y>>, <<>>)
Le(x, y) == Expr("le", "", <<x, y>>, <<>>)
Ge(x, y) == Expr("ge", "", <<x, y>>, <<>>)
Eq(x, y) == Expr("eq", "", <<x, y>>, <<>>)
And(x, y) == Expr("and", "", <<x, y>>, <<>>)
Maximum(x, y) == Expr("maximum", "", <<x, y>>, <<>>)
Select(x, k) == Expr("select", "", <<x, k>>, <<>>)    \* x[k], k a boolean mask

\* fn(args): the last Len(kw) arguments are passed by the keywords kw.
CallKw(fn, args, kw) == Expr("call", fn, args, kw)
Call(fn, args) == CallKw(fn, args, <<>>)

Stmt(op, name, args, body) == [op |-> op, name |-> name, args |-> args, body |-> body]

Assign(n, e) == Stmt("assign", n, <<e>>, <<>>)             \* n = e
SetMask(n, k, e) == Stmt("setitem", n, <<k, e>>, <<>>)     \* n[k] = e
Ret(es) == Stmt("return", "", es, <<>>)                    \* return es
For(e, body) == Stmt("for", "", <<e>>, body)               \* for _ in range(e): body
IfNone(n, body) == Stmt("ifnone", n, <<>>, body)           \* if n is None: body

\* def f(params, name=default, ...): body
Def(params, defaults, body) == [params |-> params, defaults |-> defaults, body |-> body]

NoDefaults == <<>>

(***************************************************************************)
(* Lambert function                                                        *)
(***************************************************************************)

\* def pade(x): return x * (3.0 + 6.0 * x + x ** 2.0) / (3.0 + 9.0 * x + 5.0 * x ** 2)
pade ==
    Def(<<"x">>, NoDefaults, <<
        Ret(<<Div(Mul(V("x"),
                      Add(Add(F("3.0"), Mul(F("6.0"), V("x"))), Pow(V("x"), F("2.0")))),
                  Add(Add(F("3.0"), Mul(F("9.0"), V("x"))),
                      Mul(F("5.0"), Pow(V("x"), I(2)))))>>) >>)

\* The middle regime without its upper boundary: (x < 1.0) & (x >= -2.0).
MidMask_open == And(Lt(V("x"), F("1.0")), Ge(V("x"), F("-2.0")))

\* (x <= 1.0) & (x >= -2.0)
MidMask == And(Le(V("x"), F("1.0")), Ge(V("x"), F("-2.0")))

\* init_lambertw writing its seed into x itself (z0 = x).
init_lambertw_inplace ==
    Def(<<"x">>, NoDefaults, <<
        Assign("z0", V("x")),
        SetMask("z0", Gt(V("x"), F("1.0")), Select(V("x"), Gt(V("x"), F("1.0")))),
        SetMask("z0", Lt(V("x"), F("-2.0")),
                Mul(Exp(Select(V("x"), Lt(V("x"), F("-2.0")))),
                    Sub(F("1.0"), Exp(Select(V("x"), Lt(V("x"), F("-2.0"))))))),
        SetMask("z0", MidMask, Call("pade", <<Exp(Select(V("x"), MidMask))>>)),
        SetMask("z0", Eq(V("z0"), F("0.0")), F("1e-6")),
        Ret(<<V("z0")>>) >>)

init_lambertw ==
    Def(<<"x">>, NoDefaults, <<
        \* z0 = np.zeros_like(x)
        Assign("z0", ZerosLike(V("x"))),
        \* z0[x > 1.0] = x[x > 1.0]
        SetMask("z0", Gt(V("x"), F("1.0")), Select(V("x"), Gt(V("x"), F("1.0")))),
        \* z0[x < -2.0] = np.exp(x[x < -2.0]) * (1.0 - np.exp(x[x < -2.0]))
        SetMask("z0", Lt(V("x"), F("-2.0")),
                Mul(Exp(Select(V("x"), Lt(V("x"), F("-2.0")))),
                    Sub(F("1.0"), Exp(Select(V("x"), Lt(V("x"), F("-2.0"))))))),
        \* z0[(x <= 1.0) & (x >= -2.0)] = pade(np.exp(x[(x <= 1.0) & (x >= -2.0)]))
        SetMask("z0", MidMask, Call("pade", <<Exp(Select(V("x"), MidMask))>>)),
        \* z0[z0 == 0.0] = 1e-6
        SetMask("z0", Eq(V("z0"), F("0.0")), F("1e-6")),
        Ret(<<V("z0")>>) >>)

\* def a(w): return (w * (np.log(w + 1e-17) + w - x)) / (1 + w)
\* x is the x of the enclosing log_lambertw.
lambertw_a ==
    Def(<<"w">>, NoDefaults, <<
        Ret(<<Div(Mul(V("w"), Sub(Add(Log(Add(V("w"), F("1e-17"))), V("w")), V("x"))),
                  Add(I(1), V("w")))>>) >>)

\* def b(w): return -1 / (w * (1 + w))
lambertw_b ==
    Def(<<"w">>, NoDefaults, <<
        Ret(<<Div(I(-1), Mul(V("w"), Add(I(1), V("w"))))>>) >>)

\* log_lambertw without the floor: z = z - c / (1 - 0.5 * c * b(z)).
log_lambertw_unfloored ==
    Def(<<"x">>, NoDefaults, <<
        Assign("z", Call("init_lambertw", <<V("x")>>)),
        For(I(HalleySteps), <<
            Assign("c", Call("a", <<V("z")>>)),
            Assign("z",
                Sub(V("z"),
                    Div(V("c"),
                        Sub(I(1), Mul(Mul(F("0.5"), V("c")), Call("b", <<V("z")>>)))))) >>),
        Ret(<<V("z")>>) >>)

log_lambertw ==
    Def(<<"x">>, NoDefaults, <<
        \* z = init_lambertw(x)
        Assign("z", Call("init_lambertw", <<V("x")>>)),
        \* for i in range(5):
        For(I(HalleySteps), <<
            \* c = a(z)
            Assign("c", Call("a", <<V("z")>>)),
            \* z = np.maximum(z - c / (1 - 0.5 * c * b(z)), 1e-17)
            Assign("z", Maximum(
                Sub(V("z"),
                    Div(V("c"),
                        Sub(I(1), Mul(Mul(F("0.5"), V("c")), Call("b", <<V("z")>>))))),
                F("1e-17"))) >>),
        Ret(<<V("z")>>) >>)

(***************************************************************************)
(* Properties of Berg entropy                                              *)
(***************************************************************************)

\* return -s * (np.exp(-x / s) - 1)
phis_ent ==
    Def(<<"x", "s">>, NoDefaults, <<
        Ret(<<Mul(Neg(V("s")), Sub(Exp(Div(Neg(V("x")), V("s"))), I(1)))>>) >>)

\* return - s * np.log(1 - x / s)
phis_berg ==
    Def(<<"x", "s">>, NoDefaults, <<
        Ret(<<Mul(Neg(V("s")), Log(Sub(I(1), Div(V("x"), V("s")))))>>) >>)

\* if rho2 is None: rho2 = rho
\* A missing rho2 replaced by the constant 1. instead of rho.
DefaultRho2_one == IfNone("rho2", <<Assign("rho2", F("1."))>>)

DefaultRho2 == IfNone("rho2", <<Assign("rho2", V("rho"))>>)

dual_score_ent ==
    Def(<<"f", "g", "a", "b", "C", "eps", "rho", "rho2">>, ("rho2" :> None), <<
        DefaultRho2,
        \* return np.sum(a * phis_berg(f, rho)) + np.sum(b * phis_berg(g, rho2))
        \*   + np.sum(a[:, None] * b[None, :] * phis_ent(C - f[:, None] - g[None, :], eps))
        Ret(<<Add(Add(Sum(Mul(V("a"), Call("phis_berg", <<V("f"), V("rho")>>))),
                      Sum(Mul(V("b"), Call("phis_berg", <<V("g"), V("rho2")>>)))),
                  Sum(Mul(Mul(ColAxis(V("a")), RowAxis(V("b"))),
                          Call("phis_ent",
                               <<Sub(Sub(V("C"), ColAxis(V("f"))), RowAxis(V("g"))),
                                 V("eps")>>))))>>) >>)

aprox_berg ==
    Def(<<"x", "eps", "rho">>, NoDefaults, <<
        \* delta = (rho / eps) + np.log(rho / eps) - (x / eps)
        Assign("delta", Sub(Add(Div(V("rho"), V("eps")), Log(Div(V("rho"), V("eps")))),
                            Div(V("x"), V("eps")))),
        \* return rho - eps * log_lambertw(delta)
        Ret(<<Sub(V("rho"), Mul(V("eps"), Call("log_lambertw", <<V("delta")>>)))>>) >>)

\* return 1. / (1. - (x / s))
grad_phis_berg ==
    Def(<<"x", "s">>, NoDefaults, <<
        Ret(<<Div(F("1."), Sub(F("1."), Div(V("x"), V("s"))))>>) >>)

\* return 1. / (s * (1. - (x / s)) ** 2)
hess_phis_berg ==
    Def(<<"x", "s">>, NoDefaults, <<
        Ret(<<Div(F("1."), Mul(V("s"), Pow(Sub(F("1."), Div(V("x"), V("s"))), I(2))))>>) >>)

(***************************************************************************)
(* Optimisation of translation invariance                                  *)
(***************************************************************************)

\* return np.sum(a * grad_phis_berg(-f - t, rho))
\*     - np.sum(b * grad_phis_berg(-g + t, rho2))
grad_invariant ==
    Def(<<"t", "f", "g", "a", "b", "rho", "rho2">>, NoDefaults, <<
        Ret(<<Sub(Sum(Mul(V("a"), Call("grad_phis_berg",
                                       <<Sub(Neg(V("f")), V("t")), V("rho")>>))),
                  Sum(Mul(V("b"), Call("grad_phis_berg",
                                       <<Add(Neg(V("g")), V("t")), V("rho2")>>))))>>) >>)

\* return - np.sum(a * hess_phis_berg(-f - t, rho))
\*     - np.sum(b * hess_phis_berg(-g + t, rho2))
hess_invariant ==
    Def(<<"t", "f", "g", "a", "b", "rho", "rho2">>, NoDefaults, <<
        Ret(<<Sub(Neg(Sum(Mul(V("a"), Call("hess_phis_berg",
                                           <<Sub(Neg(V("f")), V("t")), V("rho")>>)))),
                  Sum(Mul(V("b"), Call("hess_phis_berg",
                                       <<Add(Neg(V("g")), V("t")), V("rho2")>>))))>>) >>)

\* The arguments t, f, g, a, b, rho, rho2 of grad_invariant and hess_invariant.
NewtonArgs == <<V("t"), V("f"), V("g"), V("a"), V("b"), V("rho"), V("rho2")>>

\* rescale_berg that makes one Newton update more than its budget.
rescale_berg_one_more ==
    Def(<<"f", "g", "a", "b", "rho", "rho2", "nits", "init">>,
        ("rho2" :> None) @@ ("nits" :> IntRef(RescaleDefaultNits)) @@ ("init" :> Lit("0.")), <<
        DefaultRho2,
        Assign("t", V("init")),
        For(V("nits"), <<
            Assign("grad", Call("grad_invariant", NewtonArgs)),
            Assign("hess", Call("hess_invariant", NewtonArgs)),
            Assign("t", Sub(V("t"), Div(V("grad"), V("hess")))) >>),
        Assign("grad", Call("grad_invariant", NewtonArgs)),
        Assign("hess", Call("hess_invariant", NewtonArgs)),
        Assign("t", Sub(V("t"), Div(V("grad"), V("hess")))),
        Ret(<<V("t")>>) >>)

\* def rescale_berg(f, g, a, b, rho, rho2=None, nits=10, init=0.)
rescale_berg ==
    Def(<<"f", "g", "a", "b", "rho", "rho2", "nits", "init">>,
        ("rho2" :> None) @@ ("nits" :> IntRef(RescaleDefaultNits)) @@ ("init" :> Lit("0.")), <<
        DefaultRho2,
        \* t = init
        Assign("t", V("init")),
        \* for k in range(nits):
        For(V("nits"), <<
            Assign("grad", Call("grad_invariant", NewtonArgs)),
            Assign("hess", Call("hess_invariant", NewtonArgs)),
            \* t = t - grad / hess
            Assign("t", Sub(V("t"), Div(V("grad"), V("hess")))) >>),
        Ret(<<V("t")>>) >>)

(***************************************************************************)
(* Log-domain reductions of fastuot.numpy_sinkhorn: for a cost matrix of   *)
(* shape (n, m), sinkx reduces over the rows and returns a vector of       *)
(* length m, sinky reduces over the columns and returns one of length n.   *)
(* Both are pure.                                                          *)
(***************************************************************************)
sinkx ==
    Def(<<"C", "f", "a", "eps">>, NoDefaults, <<
        Ret(<<Expr("softmin_x", "", <<V("C"), V("f"), V("a"), V("eps")>>, <<>>)>>) >>)

sinky ==
    Def(<<"C", "g", "b", "eps">>, NoDefaults, <<
        Ret(<<Expr("softmin_y", "", <<V("C"), V("g"), V("b"), V("eps")>>, <<>>)>>) >>)

(***************************************************************************)
(* Sinkhorn loops and G-Sinkhorn                                           *)
(***************************************************************************)

\* rescale_berg(f, g, a, b, rho, rho2)
Rescale == Call("rescale_berg", <<V("f"), V("g"), V("a"), V("b"), V("rho"), V("rho2")>>)

\* rescale_berg(f, g, a, b, rho, rho2, nits=nits, init=t)
RescaleFrom ==
    CallKw("rescale_berg",
           <<V("f"), V("g"), V("a"), V("b"), V("rho"), V("rho2"), V("nits"), V("t")>>,
           <<"nits", "init">>)

\* f_sinkhorn_loop with the two marginal parameters exchanged.
f_sinkhorn_loop_swapped ==
    Def(<<"f", "a", "b", "C", "eps", "rho", "rho2">>, ("rho2" :> None), <<
        DefaultRho2,
        Assign("g", Call("sinkx", <<V("C"), V("f"), V("a"), V("eps")>>)),
        Assign("g", Neg(Call("aprox_berg", <<Neg(V("g")), V("eps"), V("rho")>>))),
        Assign("f", Call("sinky", <<V("C"), V("g"), V("b"), V("eps")>>)),
        Assign("f", Neg(Call("aprox_berg", <<Neg(V("f")), V("eps"), V("rho2")>>))),
        Ret(<<V("f"), V("g")>>) >>)

f_sinkhorn_loop ==
    Def(<<"f", "a", "b", "C", "eps", "rho", "rho2">>, ("rho2" :> None), <<
        DefaultRho2,
        \* g = sinkx(C, f, a, eps)
        Assign("g", Call("sinkx", <<V("C"), V("f"), V("a"), V("eps")>>)),
        \* g = -aprox_berg(-g, eps, rho2)
        Assign("g", Neg(Call("aprox_berg", <<Neg(V("g")), V("eps"), V("rho2")>>))),
        \* f = sinky(C, g, b, eps)
        Assign("f", Call("sinky", <<V("C"), V("g"), V("b"), V("eps")>>)),
        \* f = -aprox_berg(-f, eps, rho)
        Assign("f", Neg(Call("aprox_berg", <<Neg(V("f")), V("eps"), V("rho")>>))),
        Ret(<<V("f"), V("g")>>) >>)

(***************************************************************************)
(* H-Sinkhorn                                                              *)
(***************************************************************************)

\* g = -aprox_berg(-(gs - t), eps, rho2) + t
HProxG ==
    Assign("g", Add(Neg(Call("aprox_berg",
                             <<Neg(Sub(V("gs"), V("t"))), V("eps"), V("rho2")>>)),
                    V("t")))

\* f = -aprox_berg(-(fs + t), eps, rho) - t
HProxF ==
    Assign("f", Sub(Neg(Call("aprox_berg",
                             <<Neg(Add(V("fs"), V("t"))), V("eps"), V("rho")>>)),
                    V("t")))

\* return f + t, g - t
\* The final shift with the same sign on both potentials.
HShift_same_sign == Ret(<<Add(V("f"), V("t")), Add(V("g"), V("t"))>>)

HShift == Ret(<<Add(V("f"), V("t")), Sub(V("g"), V("t"))>>)

\* h_sinkhorn_loop without the last recomputation of the shift.
h_sinkhorn_loop_no_last_rescale ==
    Def(<<"f", "a", "b", "C", "eps", "rho", "rho2", "nits">>,
        ("rho2" :> None) @@ ("nits" :> IntRef(HDefaultNits)), <<
        DefaultRho2,
        Assign("t", I(0)),
        Assign("gs", Call("sinkx", <<V("C"), V("f"), V("a"), V("eps")>>)),
        For(V("nits"), << HProxG, Assign("t", RescaleFrom) >>),
        HProxG,
        Assign("fs", Call("sinky", <<V("C"), V("g"), V("b"), V("eps")>>)),
        For(V("nits"), << HProxF, Assign("t", RescaleFrom) >>),
        HProxF,
        HShift >>)

\* def h_sinkhorn_loop(f, a, b, C, eps, rho, rho2=None, nits=20)
h_sinkhorn_loop ==
    Def(<<"f", "a", "b", "C", "eps", "rho", "rho2", "nits">>,
        ("rho2" :> None) @@ ("nits" :> IntRef(HDefaultNits)), <<
        DefaultRho2,
        \* t = 0
        Assign("t", I(0)),
        \* gs = sinkx(C, f, a, eps)
        Assign("gs", Call("sinkx", <<V("C"), V("f"), V("a"), V("eps")>>)),
        \* for it in range(nits):
        For(V("nits"), << HProxG, Assign("t", RescaleFrom) >>),
        HProxG,
        \* fs = sinky(C, g, b, eps)
        Assign("fs", Call("sinky", <<V("C"), V("g"), V("b"), V("eps")>>)),
        \* for it in range(nits):
        For(V("nits"), << HProxF, Assign("t", RescaleFrom) >>),
        HProxF,
        \* t = rescale_berg(f, g, a, b, rho, rho2)
        Assign("t", Rescale),
        HShift >>)

\* g_sinkhorn_loop whose update of f uses the shift passed in: the first
\* recomputed shift is left aside.
g_sinkhorn_loop_stale_shift ==
    Def(<<"f", "g", "t", "a", "b", "C", "eps", "rho", "rho2">>, ("rho2" :> None), <<
        DefaultRho2,
        Assign("g", Call("sinkx", <<V("C"), V("f"), V("a"), V("eps")>>)),
        Assign("g", Neg(Call("aprox_berg",
                             <<Neg(Sub(V("g"), V("t"))), V("eps"), V("rho2")>>))),
        Assign("t1", Rescale),
        Assign("f", Call("sinky", <<V("C"), V("g"), V("b"), V("eps")>>)),
        Assign("f", Neg(Call("aprox_berg",
                             <<Neg(Add(V("f"), V("t"))), V("eps"), V("rho")>>))),
        Assign("t", Rescale),
        Ret(<<V("f"), V("g"), V("t")>>) >>)

\* g_sinkhorn_loop updating the g it is given, without g = sinkx(C, f, a, eps).
g_sinkhorn_loop_reads_g ==
    Def(<<"f", "g", "t", "a", "b", "C", "eps", "rho", "rho2">>, ("rho2" :> None), <<
        DefaultRho2,
        Assign("g", Neg(Call("aprox_berg",
                             <<Neg(Sub(V("g"), V("t"))), V("eps"), V("rho2")>>))),
        Assign("t", Rescale),
        Assign("f", Call("sinky", <<V("C"), V("g"), V("b"), V("eps")>>)),
        Assign("f", Neg(Call("aprox_berg",
                             <<Neg(Add(V("f"), V("t"))), V("eps"), V("rho")>>))),
        Assign("t", Rescale),
        Ret(<<V("f"), V("g"), V("t")>>) >>)

\* def g_sinkhorn_loop(f, g, t, a, b, C, eps, rho, rho2=None)
g_sinkhorn_loop ==
    Def(<<"f", "g", "t", "a", "b", "C", "eps", "rho", "rho2">>, ("rho2" :> None), <<
        DefaultRho2,
        \* g = sinkx(C, f, a, eps)
        Assign("g", Call("sinkx", <<V("C"), V("f"), V("a"), V("eps")>>)),
        \* g = -aprox_berg(-(g - t), eps, rho2)
        Assign("g", Neg(Call("aprox_berg",
                             <<Neg(Sub(V("g"), V("t"))), V("eps"), V("rho2")>>))),
        \* t = rescale_berg(f, g, a, b, rho, rho2)
        Assign("t", Rescale),
        \* f = sinky(C, g, b, eps)
        Assign("f", Call("sinky", <<V("C"), V("g"), V("b"), V("eps")>>)),
        \* f = -aprox_berg(-(f + t), eps, rho)
        Assign("f", Neg(Call("aprox_berg",
                             <<Neg(Add(V("f"), V("t"))), V("eps"), V("rho")>>))),
        \* t = rescale_berg(f, g, a, b, rho, rho2)
        Assign("t", Rescale),
        Ret(<<V("f"), V("g"), V("t")>>) >>)

\* The functions of the module, by name.
Prog(fn) ==
    CASE fn = "pade" -> pade
      [] fn = "init_lambertw" -> init_lambertw
      [] fn = "a" -> lambertw_a
      [] fn = "b" -> lambertw_b
      [] fn = "log_lambertw" -> log_lambertw
      [] fn = "phis_ent" -> phis_ent
      [] fn = "phis_berg" -> phis_berg
      [] fn = "dual_score_ent" -> dual_score_ent
      [] fn = "aprox_berg" -> aprox_berg
      [] fn = "grad_phis_berg" -> grad_phis_berg
      [] fn = "hess_phis_berg" -> hess_phis_berg
      [] fn = "grad_invariant" -> grad_invariant
      [] fn = "hess_invariant" -> hess_invariant
      [] fn = "rescale_berg" -> rescale_berg
      [] fn = "sinkx" -> sinkx
      [] fn = "sinky" -> sinky
      [] fn = "f_sinkhorn_loop" -> f_sinkhorn_loop
      [] fn = "h_sinkhorn_loop" -> h_sinkhorn_loop
      [] fn = "g_sinkhorn_loop" -> g_sinkhorn_loop

(***************************************************************************)
(* Compilation to the instructions of a stack machine, in the order in     *)
(* which CPython evaluates: the operands of an operation left to right,    *)
(* then the operation; the right-hand side of an assignment, then the      *)
(* store.                                                                  *)
(***************************************************************************)
Ins(op, name, n, kw) == [op |-> op, name |-> name, n |-> n, kw |-> kw]

RECURSIVE CompileExpr(_), CompileArgs(_, _), CompileStmt(_), CompileBody(_, _)

CompileArgs(es, i) ==
    IF i > Len(es) THEN <<>> ELSE CompileExpr(es[i]) \o CompileArgs(es, i + 1)

CompileExpr(e) ==
    CASE e.op = "var" -> <<Ins("load", e.name, 0, <<>>)>>
      [] e.op = "float" -> <<Ins("float", e.name, 0, <<>>)>>
      [] e.op = "int" -> <<Ins("int", "", e.args[1], <<>>)>>
      [] e.op = "call" -> CompileArgs(e.args, 1) \o <<Ins("call", e.name, Len(e.args), e.kw)>>
      [] OTHER -> CompileArgs(e.args, 1) \o <<Ins("apply", e.op, Len(e.args), <<>>)>>

CompileStmt(s) ==
    CASE s.op = "assign" -> CompileExpr(s.args[1]) \o <<Ins("store", s.name, 0, <<>>)>>
      [] s.op = "setitem" ->
           \* the right-hand side first, then the index of the target
           CompileExpr(s.args[2]) \o CompileExpr(s.args[1])
               \o <<Ins("setitem", s.name, 0, <<>>)>>
      [] s.op = "return" -> CompileArgs(s.args, 1) \o <<Ins("return", "", Len(s.args), <<>>)>>
      [] s.op = "for" ->
           \* the count, then the body between "for" and "next"
           CompileExpr(s.args[1])
               \o <<Ins("for", "", Len(CompileBody(s.body, 1)), <<>>)>>
               \o CompileBody(s.body, 1)
               \o <<Ins("next", "", Len(CompileBody(s.body, 1)), <<>>)>>
      [] s.op = "ifnone" ->
           <<Ins("ifnone", s.name, Len(CompileBody(s.body, 1)), <<>>)>>
               \o CompileBody(s.body, 1)

CompileBody(ss, i) ==
    IF i > Len(ss) THEN <<>> ELSE CompileStmt(ss[i]) \o CompileBody(ss, i + 1)

Functions ==
    {"pade", "init_lambertw", "a", "b", "log_lambertw", "phis_ent", "phis_berg",
     "dual_score_ent", "aprox_berg", "grad_phis_berg", "hess_phis_berg",
     "grad_invariant", "hess_invariant", "rescale_berg", "sinkx", "sinky",
     "f_sinkhorn_loop", "h_sinkhorn_loop", "g_sinkhorn_loop"}

Code == [fn \in Functions |-> CompileBody(Prog(fn).body, 1)]

(***************************************************************************)
(* Execution.  A frame holds the function running, the index of its next   *)
(* instruction, its local names, the operands computed and not yet used,   *)
(* and the rounds left of the loops it is in.                              *)
(***************************************************************************)

\* The frame of a call of fn: the first Len(xs) - Len(kw) values of xs bind
\* the leading parameters, the others the parameters named kw, and a
\* parameter not passed takes its default.
Frame(fn, xs, kw) ==
    LET params == Prog(fn).params
        npos == Len(xs) - Len(kw)
        Pos(n) == CHOOSE i \in 1..Len(params) : params[i] = n
    IN  [n \in {params[i] : i \in 1..Len(params)} |->
            IF Pos(n) <= npos THEN xs[Pos(n)]
            ELSE IF \E j \in 1..Len(kw) : kw[j] = n
                 THEN xs[npos + (CHOOSE j \in 1..Len(kw) : kw[j] = n)]
                 ELSE Prog(fn).defaults[n]]

\* The values of the parameters of a frame, in the order of the signature.
ParamValues(fn, frame) ==
    [i \in 1..Len(Prog(fn).params) |-> frame[Prog(fn).params[i]]]

Top(mm) == mm.env[Len(mm.env)]

Halted(mm) == mm.err \/ Len(mm.env) = 0

\* The last n operands of the innermost frame, and the frame without them.
Operands(mm, n) == SubSeq(Top(mm).ops, Len(Top(mm).ops) - n + 1, Len(Top(mm).ops))

Popped(mm, n) ==
    [mm EXCEPT !.env[Len(mm.env)].ops = SubSeq(@, 1, Len(@) - n)]

\* The innermost frame takes the value r and moves on by k instructions.
Push(mm, r, k) ==
    [mm EXCEPT !.env[Len(mm.env)].ops = Append(@, r),
               !.env[Len(mm.env)].pc = @ + k]

Jump(mm, k) == [mm EXCEPT !.env[Len(mm.env)].pc = @ + k]

\* fn(xs): a new frame; the caller resumes after the call.
Invoke(mm, fn, xs, kw) ==
    Emit([mm EXCEPT !.env = Append(@, [fn |-> fn, pc |-> 1, vars |-> Frame(fn, xs, kw),
                                        ops |-> <<>>, loops |-> <<>>])],
         "call", fn, ParamValues(fn, Frame(fn, xs, kw)), <<>>).m

\* return xs: recorded on the tape; the frame is dropped and the caller, if
\* any, receives the value.
Return(mm, xs) ==
    CHOOSE res \in
        {IF Len(mm.env) = 1
         THEN [e.m EXCEPT !.env = <<>>, !.ret = xs]
         ELSE Push([e.m EXCEPT !.env = SubSeq(@, 1, Len(@) - 1), !.ret = xs],
                   IF Len(xs) = 1 THEN xs[1] ELSE None, 0)
         : e \in {Emit(mm, "return", Top(mm).fn, xs, <<>>)}} : TRUE

\* One instruction.
Step(mm) ==
    IF Halted(mm) THEN mm
    ELSE LET ins == Code[Top(mm).fn][Top(mm).pc]
         IN  CASE ins.op = "load" -> Push(mm, Lookup(mm, ins.name), 1)
               [] ins.op = "float" -> Push(mm, Lit(ins.name), 1)
               [] ins.op = "int" -> Push(mm, IntRef(ins.n), 1)
               [] ins.op = "apply" ->
                    CHOOSE res \in
                        {IF v.m.err THEN v.m ELSE Push(v.m, v.r, 1)
                         : v \in {Apply(Popped(mm, ins.n), ins.name, Operands(mm, ins.n))}}
                        : TRUE
               [] ins.op = "call" ->
                    Invoke(Jump(Popped(mm, ins.n), 1), ins.name, Operands(mm, ins.n), ins.kw)
               [] ins.op = "return" -> Return(Popped(mm, ins.n), Operands(mm, ins.n))
               [] ins.op = "store" ->
                    Jump(Store(Popped(mm, 1), ins.name, Operands(mm, 1)[1]), 1)
               [] ins.op = "setitem" ->
                    Jump(SetItem(Popped(mm, 2), Lookup(mm, ins.name),
                                 Operands(mm, 2)[2], Operands(mm, 2)[1]), 1)
               [] ins.op = "for" ->
                    IF IntOf(Operands(mm, 1)[1]) <= 0
                    THEN Jump(Popped(mm, 1), ins.n + 2)
                    ELSE Jump([Popped(mm, 1) EXCEPT !.env[Len(mm.env)].loops =
                                   Append(@, IntOf(Operands(mm, 1)[1]))], 1)
               [] ins.op = "next" ->
                    IF Top(mm).loops[Len(Top(mm).loops)] > 1
                    THEN Jump([mm EXCEPT !.env[Len(mm.env)].loops[Len(Top(mm).loops)] = @ - 1],
                              - ins.n)
                    ELSE Jump([mm EXCEPT !.env[Len(mm.env)].loops =
                                   SubSeq(@, 1, Len(@) - 1)], 1)
               [] ins.op = "ifnone" ->
                    IF Lookup(mm, ins.name) = None THEN Jump(mm, 1) ELSE Jump(mm, ins.n + 1)

\* n instructions, or fewer when the call ends before.
RECURSIVE StepN(_, _)
StepN(mm, n) ==
    IF n = 1 THEN Step(mm)
    ELSE CHOOSE res \in
             {IF Halted(y) THEN y ELSE StepN(y, n - n \div 2) : y \in {StepN(mm, n \div 2)}}
             : TRUE

\* The instructions up to the return of the outermost call.
RECURSIVE Run(_)
Run(mm) ==
    CHOOSE res \in {IF Halted(y) THEN y ELSE Run(y) : y \in {StepN(mm, 4096)}} : TRUE

(***************************************************************************)
(* The caller.  It builds the arguments (fresh arrays and scalars, the     *)
(* first call.nin entries of the tape), calls one routine, passing every   *)
(* argument it supplies by name, and keeps what the routine returned.      *)
(***************************************************************************)
Lens == 1..MaxLen

Budgets == 0..MaxNits

XVals == (-MaxX)..MaxX

\* A Python float that divides a scalar (eps, and s of grad_phis_berg and
\* hess_phis_berg) is 0.0 or 1.0.
EpsVals == 0..1

\* An argument: a fresh numpy array of the shape sh, a numpy scalar
\* (np.float64, a 0-d array) when sh is empty (kind "new"); an array filled
\* with the value n, np.full(sh, n) (kind "full"); the Python float n (kind
\* "float"); or the Python int n.  The values of an array and of a numpy
\* scalar are not carried, those of x = np.full(sh, n) aside.
ArrArg(name, sh) == [name |-> name, kind |-> "new", sh |-> sh, n |-> 0, known |-> FALSE]
FullArg(name, sh, v) == [name |-> name, kind |-> "full", sh |-> sh, n |-> v, known |-> TRUE]
FloatArg(name, v) == [name |-> name, kind |-> "float", sh |-> <<>>, n |-> v, known |-> TRUE]
IntArg(name, n) == [name |-> name, kind |-> "int", sh |-> <<>>, n |-> n, known |-> TRUE]

\* A scalar that is no divisor of a scalar (rho, rho2, t, init): the Python
\* float 1.0 when py, a numpy scalar otherwise.
ScalarArg(name, py) == IF py THEN FloatArg(name, 1) ELSE ArrArg(name, <<>>)

\* The scalars a caller may pass for the parameter name: the Python floats
\* 0.0 and 1.0, and a numpy scalar.
Scalars(name) == {FloatArg(name, v) : v \in EpsVals} \cup {ScalarArg(name, FALSE)}

EpsArgs == Scalars("eps")

\* The kinds of a scalar: a Python float, a numpy scalar; for an optional
\* one also "none", the argument left out.
Kinds == {"py", "np"}

OptKinds == {"none"} \cup Kinds

RECURSIVE Inputs(_, _, _)
Inputs(mm, args, i) ==
    IF i > Len(args) THEN [m |-> mm, r |-> <<>>]
    ELSE CHOOSE res \in
             {[m |-> rest.m, r |-> <<x.r>> \o rest.r]
              : <<x, rest>> \in
                  {<<y, Inputs(y.m, args, i + 1)>>
                   : y \in {IF args[i].kind = "int"
                            THEN [m |-> mm, r |-> IntRef(args[i].n)]
                            ELSE Emit(mm,
                                      IF args[i].kind = "float" THEN "pyfloat" ELSE "input",
                                      args[i].name,
                                      IF args[i].known THEN <<args[i].n>> ELSE <<>>,
                                      args[i].sh)}}}
             : TRUE

Names(args) == [i \in 1..Len(args) |-> args[i].name]

\* The optional arguments the caller supplies: opt[i] when on[i].
RECURSIVE Supplied(_, _)
Supplied(opt, on) ==
    IF opt = <<>> THEN <<>>
    ELSE (IF Head(on) THEN <<Head(opt)>> ELSE <<>>) \o Supplied(Tail(opt), Tail(on))

Idle == [fn |-> "", given |-> <<>>, nin |-> 0]

\* The call fn(**args).
CallWith(fn, args) ==
    /\ pc = "idle"
    /\ \E built \in {Inputs(EmptyMach, args, 1)} :
       \E start \in {Invoke(built.m, fn, built.r, Names(args))} :
       \E res \in {Run(start)} :
         /\ call' = [fn |-> fn, given |-> Names(args), nin |-> Len(built.m.tape)]
         /\ mach' = [tape |-> res.tape, err |-> res.err]
         /\ ret' = res.ret
         /\ pc' = "done"

Init ==
    /\ pc = "idle"
    /\ call = Idle
    /\ mach = [tape |-> <<>>, err |-> FALSE]
    /\ ret = <<>>

\* x = np.full(n, v), as for log_lambertw below.
Call_init_lambertw ==
    \E n \in Lens, v \in XVals : CallWith("init_lambertw", <<FullArg("x", <<n>>, v)>>)

\* x = np.full(n, v): the model carries the value of x for this routine.
Call_log_lambertw ==
    \E n \in Lens, v \in XVals : CallWith("log_lambertw", <<FullArg("x", <<n>>, v)>>)

\* x is a vector, or a scalar as s is: with the Python floats x = s the
\* divisor 1. - (x / s) is a zero Python computed.
Call_grad_phis_berg ==
    \E x \in Scalars("x") \cup {ArrArg("x", <<n>>) : n \in Lens}, s \in Scalars("s") :
        CallWith("grad_phis_berg", <<x, s>>)

Call_hess_phis_berg ==
    \E x \in Scalars("x") \cup {ArrArg("x", <<n>>) : n \in Lens}, s \in Scalars("s") :
        CallWith("hess_phis_berg", <<x, s>>)

Call_aprox_berg ==
    \E n \in Lens, eps \in EpsArgs, rho \in Kinds :
        CallWith("aprox_berg", <<ArrArg("x", <<n>>), eps, ScalarArg("rho", rho = "py")>>)

\* The potentials and the weights may have any lengths: nothing before the
\* call checks them.
Vectors(lf, lg, la, lb) ==
    <<ArrArg("f", <<lf>>), ArrArg("g", <<lg>>), ArrArg("a", <<la>>), ArrArg("b", <<lb>>)>>

Call_grad_invariant ==
    \E lf \in Lens, lg \in Lens, la \in Lens, lb \in Lens :
        CallWith("grad_invariant",
                 <<ScalarArg("t", TRUE)>> \o Vectors(lf, lg, la, lb)
                     \o <<ScalarArg("rho", TRUE), ScalarArg("rho2", TRUE)>>)

Call_hess_invariant ==
    \E lf \in Lens, lg \in Lens, la \in Lens, lb \in Lens :
        CallWith("hess_invariant",
                 <<ScalarArg("t", TRUE)>> \o Vectors(lf, lg, la, lb)
                     \o <<ScalarArg("rho", TRUE), ScalarArg("rho2", TRUE)>>)

Call_rescale_berg ==
    \E lf \in Lens, lg \in Lens, la \in Lens, lb \in Lens,
       hasRho2 \in BOOLEAN, hasNits \in BOOLEAN, hasInit \in BOOLEAN, nits \in Budgets :
        /\ hasNits \/ nits = 0
        /\ CallWith("rescale_berg",
                    Vectors(lf, lg, la, lb) \o <<ScalarArg("rho", TRUE)>>
                        \o Supplied(<<ScalarArg("rho2", TRUE), IntArg("nits", nits), ScalarArg("init", TRUE)>>,
                                    <<hasRho2, hasNits, hasInit>>))

\* The cost matrix has the shape of the potentials, (len f, len g).
Call_dual_score_ent ==
    \E lf \in Lens, lg \in Lens, la \in Lens, lb \in Lens, hasRho2 \in BOOLEAN,
       e \in EpsVals :
        CallWith("dual_score_ent",
                 Vectors(lf, lg, la, lb)
                     \o <<ArrArg("C", <<lf, lg>>), FloatArg("eps", e), ScalarArg("rho", TRUE)>>
                     \o Supplied(<<ScalarArg("rho2", TRUE)>>, <<hasRho2>>))

\* The Sinkhorn loops are called on measures of n and k points: f and a of
\* length n, g and b of length k, C of shape (n, k).
Measures(n, k, eps, rho) ==
    <<ArrArg("a", <<n>>), ArrArg("b", <<k>>), ArrArg("C", <<n, k>>),
      eps, ScalarArg("rho", rho = "py")>>

\* rho2, of the kind given, unless it is left out.
OptRho2(rho2) == Supplied(<<ScalarArg("rho2", rho2 = "py")>>, <<rho2 # "none">>)

\* The scalars <<eps, kind of rho, kind of rho2>> the loops are called with.
\* The kinds tell in rho / eps of aprox_berg alone, where eps is the Python
\* float 0.0: there every combination is drawn.  For another eps the loops
\* are called with Python floats, with and without rho2; with a Python eps
\* and an np.float64 rho, as paper_estimate_contraction_rate_kl.py calls
\* them; and with a numpy eps and a Python rho.
LoopScalars ==
    {<<FloatArg("eps", 0), rho, rho2>> : rho \in Kinds, rho2 \in OptKinds}
        \cup {<<FloatArg("eps", 1), "py", "none">>,
              <<FloatArg("eps", 1), "py", "py">>,
              <<FloatArg("eps", 1), "np", "none">>,
              <<ScalarArg("eps", FALSE), "py", "none">>}

Call_f_sinkhorn_loop ==
    \E n \in Lens, k \in Lens, s \in LoopScalars :
        CallWith("f_sinkhorn_loop",
                 <<ArrArg("f", <<n>>)>> \o Measures(n, k, s[1], s[2]) \o OptRho2(s[3]))

\* The inner budget is always passed here: a run with the default of 20
\* rounds is beyond what the bounds of the model hold.
Call_h_sinkhorn_loop ==
    \E n \in Lens, k \in Lens, s \in LoopScalars, nits \in Budgets :
        CallWith("h_sinkhorn_loop",
                 <<ArrArg("f", <<n>>)>> \o Measures(n, k, s[1], s[2]) \o OptRho2(s[3])
                     \o <<IntArg("nits", nits)>>)

Call_g_sinkhorn_loop ==
    \E n \in Lens, k \in Lens, s \in LoopScalars :
        CallWith("g_sinkhorn_loop",
                 <<ArrArg("f", <<n>>), ArrArg("g", <<k>>), ScalarArg("t", TRUE)>>
                     \o Measures(n, k, s[1], s[2]) \o OptRho2(s[3]))

\* The caller drops the results; the next call is an independent one.
Reset ==
    /\ pc = "done"
    /\ pc' = "idle"
    /\ call' = Idle
    /\ mach' = [tape |-> <<>>, err |-> FALSE]
    /\ ret' = <<>>

Next ==
    \/ Call_init_lambertw
    \/ Call_log_lambertw
    \/ Call_aprox_berg
    \/ Call_grad_phis_berg
    \/ Call_hess_phis_berg
    \/ Call_grad_invariant
    \/ Call_hess_invariant
    \/ Call_rescale_berg
    \/ Call_dual_score_ent
    \/ Call_f_sinkhorn_loop
    \/ Call_h_sinkhorn_loop
    \/ Call_g_sinkhorn_loop
    \/ Reset

Spec == Init /\ [][Next]_vars

(***************************************************************************)
(* Reading a finished call off the tape.                                   *)
(***************************************************************************)
Done(fn) == pc = "done" /\ call.fn = fn /\ ~mach.err

\* The value the outermost call has for its parameter n (defaults included).
Param(n) ==
    mach.tape[call.nin + 1].args[
        CHOOSE i \in 1..Len(Prog(call.fn).params) : Prog(call.fn).params[i] = n]

\* The value a call without rho2 runs with is checked apart; a call that
\* supplies rho2 runs with it.
Rho2Given == Param("rho2") # None

IsCall(i, d) == mach.tape[i].op = "call" /\ mach.tape[i].d = d

IsReturn(i, d) == mach.tape[i].op = "return" /\ mach.tape[i].d = d

\* The calls at depth d among the entries lo..hi, in the order they happen.
CallsIn(lo, hi, d) ==
    SelectSeq([k \in 1..(hi - lo + 1) |-> lo + k - 1], LAMBDA i : IsCall(i, d))

\* The calls the outermost call makes itself.
DirectCalls == CallsIn(1, Len(mach.tape), 2)

\* The return that ends the call at entry i: the first at its depth after it.
ReturnOf(i) ==
    CHOOSE j \in (i + 1)..Len(mach.tape) :
        /\ IsReturn(j, mach.tape[i].d)
        /\ \A k \in (i + 1)..(j - 1) : ~IsReturn(k, mach.tape[i].d)

\* The single value the call at entry i returns.
Res(i) == mach.tape[ReturnOf(i)].args[1]

\* The names of the functions called at the entries cs.
NamesOf(cs) == [k \in 1..Len(cs) |-> mach.tape[cs[k]].lit]

\* Entry i is the operation op on the operands xs.
IsOp(i, op, xs) ==
    /\ i \in 1..Len(mach.tape)
    /\ mach.tape[i].op = op
    /\ mach.tape[i].args = xs

\* The operations at depth 1: those the body of the outermost call performs
\* itself, the call and its return aside.
OwnOps ==
    {i \in 1..Len(mach.tape) :
        mach.tape[i].d = 1 /\ mach.tape[i].op \notin {"call", "return"}}

\* n times the sequence s.
RECURSIVE Repeat(_, _)
Repeat(s, n) == IF n <= 0 THEN <<>> ELSE s \o Repeat(s, n - 1)

(***************************************************************************)
(* C1.  One call of f_sinkhorn_loop(f, a, b, C, eps, rho, rho2) makes      *)
(* exactly one alternating update: g = -aprox_berg(-sinkx(C, f, a, eps),   *)
(* eps, rho2) from the f passed in, then f = -aprox_berg(-sinky(C, g, b,   *)
(* eps), eps, rho) from that new g; it returns exactly (f, g); rho2 is     *)
(* used for the g update only, rho for the f update only; and there is no  *)
(* translation step: the four calls and the four negations are all the     *)
(* function does.                                                          *)
(***************************************************************************)
C1_FLoopOneAlternation ==
    (Done("f_sinkhorn_loop") /\ Rho2Given) =>
        LET cs == DirectCalls
            gx == ReturnOf(cs[1]) + 1     \* -g, g the result of sinkx
            g  == ReturnOf(cs[2]) + 1     \* the new g
            fy == ReturnOf(cs[3]) + 1     \* -f, f the result of sinky
            f  == ReturnOf(cs[4]) + 1     \* the new f
        IN  /\ NamesOf(cs) = <<"sinkx", "aprox_berg", "sinky", "aprox_berg">>
            /\ mach.tape[cs[1]].args = <<Param("C"), Param("f"), Param("a"), Param("eps")>>
            /\ IsOp(gx, "neg", <<Res(cs[1])>>)
            /\ mach.tape[cs[2]].args = <<gx, Param("eps"), Param("rho2")>>
            /\ IsOp(g, "neg", <<Res(cs[2])>>)
            /\ mach.tape[cs[3]].args = <<Param("C"), g, Param("b"), Param("eps")>>
            /\ IsOp(fy, "neg", <<Res(cs[3])>>)
            /\ mach.tape[cs[4]].args = <<fy, Param("eps"), Param("rho")>>
            /\ IsOp(f, "neg", <<Res(cs[4])>>)
            /\ ret = <<f, g>>
            /\ OwnOps = {gx, g, fy, f}
            /\ \A i \in 1..Len(mach.tape) : mach.tape[i].lit # "rescale_berg"

\* A call of f_sinkhorn_loop with its own rho2, on measures of several
\* points, has returned its pair.
C1_Witness ==
    /\ Done("f_sinkhorn_loop")
    /\ Rho2Given
    /\ Len(ret) = 2
    /\ mach.tape[ret[1]].sh = <<MaxLen>>
    /\ Param("rho2") # Param("rho")

\* The rho2 the call runs with (rho when the caller passes none).
Rho2InUse == IF Rho2Given THEN Param("rho2") ELSE Param("rho")

\* The call of aprox_berg at entry c is the proximal update of g from gs with
\* shift t: g = -aprox_berg(-(gs - t), eps, rho2) + t, g being entry GOf(c).
GOf(c) == ReturnOf(c) + 2

ProxGAt(c, gs, t) ==
    /\ IsOp(c - 2, "sub", <<gs, t>>)
    /\ IsOp(c - 1, "neg", <<c - 2>>)
    /\ mach.tape[c].args = <<c - 1, Param("eps"), Rho2InUse>>
    /\ IsOp(GOf(c) - 1, "neg", <<Res(c)>>)
    /\ IsOp(GOf(c), "add", <<GOf(c) - 1, t>>)

\* Likewise for f: f = -aprox_berg(-(fs + t), eps, rho) - t, f being FOf(c).
FOf(c) == ReturnOf(c) + 2

ProxFAt(c, fs, t) ==
    /\ IsOp(c - 2, "add", <<fs, t>>)
    /\ IsOp(c - 1, "neg", <<c - 2>>)
    /\ mach.tape[c].args = <<c - 1, Param("eps"), Param("rho")>>
    /\ IsOp(FOf(c) - 1, "neg", <<Res(c)>>)
    /\ IsOp(FOf(c), "sub", <<FOf(c) - 1, t>>)

(***************************************************************************)
(* C2.  One call of h_sinkhorn_loop with inner budget nits = N starts from *)
(* the shift t = 0 and runs, in order: N rounds "proximal update of g,     *)
(* then t = rescale_berg(f, g, ..., nits=N, init=t)" with f the f passed   *)
(* in, and one more proximal update of g; N rounds "proximal update of f,  *)
(* then t = rescale_berg(f, g, ...)" with g the g the first phase left,    *)
(* and one more proximal update of f; one last rescale_berg(f, g); and it  *)
(* returns (f + t, g - t) for the last t.  For every N >= 0.               *)
(***************************************************************************)
C2_HLoopPhases ==
    Done("h_sinkhorn_loop") =>
        LET N  == IntOf(Param("nits"))
            cs == DirectCalls
            round == <<"aprox_berg", "rescale_berg">>
            gs == Res(cs[1])
            \* the shift after r rounds of the g phase
            TG(r) == IF r = 0 THEN IntRef(0) ELSE Res(cs[2 * r + 1])
            gEnd == GOf(cs[2 * N + 2])
            fs == Res(cs[2 * N + 3])
            \* the shift after r rounds of the f phase
            TF(r) == IF r = 0 THEN TG(N) ELSE Res(cs[2 * N + 3 + 2 * r])
            fEnd == FOf(cs[4 * N + 4])
            tEnd == Res(cs[4 * N + 5])
        IN  /\ NamesOf(cs) = <<"sinkx">> \o Repeat(round, N) \o <<"aprox_berg", "sinky">>
                               \o Repeat(round, N) \o round
            /\ mach.tape[cs[1]].args = <<Param("C"), Param("f"), Param("a"), Param("eps")>>
            /\ \A r \in 1..N :
                 /\ ProxGAt(cs[2 * r], gs, TG(r - 1))
                 /\ mach.tape[cs[2 * r + 1]].args =
                        <<Param("f"), GOf(cs[2 * r]), Param("a"), Param("b"), Param("rho"),
                          Rho2InUse, IntRef(N), TG(r - 1)>>
            /\ ProxGAt(cs[2 * N + 2], gs, TG(N))
            /\ mach.tape[cs[2 * N + 3]].args = <<Param("C"), gEnd, Param("b"), Param("eps")>>
            /\ \A r \in 1..N :
                 /\ ProxFAt(cs[2 * N + 2 + 2 * r], fs, TF(r - 1))
                 /\ mach.tape[cs[2 * N + 3 + 2 * r]].args =
                        <<FOf(cs[2 * N + 2 + 2 * r]), gEnd, Param("a"), Param("b"),
                          Param("rho"), Rho2InUse, IntRef(N), TF(r - 1)>>
            /\ ProxFAt(cs[4 * N + 4], fs, TF(N))
            /\ SubSeq(mach.tape[cs[4 * N + 5]].args, 1, 6) =
                   <<fEnd, gEnd, Param("a"), Param("b"), Param("rho"), Rho2InUse>>
            /\ Len(ret) = 2
            /\ IsOp(ret[1], "add", <<fEnd, tEnd>>)
            /\ IsOp(ret[2], "sub", <<gEnd, tEnd>>)
            /\ Cardinality(OwnOps) = 4 * (2 * N + 2) + 2

\* A call of h_sinkhorn_loop with the largest budget has run both phases.
C2_Witness ==
    /\ Done("h_sinkhorn_loop")
    /\ IntOf(Param("nits")) = MaxNits
    /\ Len(DirectCalls) = 4 * MaxNits + 5
    /\ Len(ret) = 2

(***************************************************************************)
(* C3.  One call of g_sinkhorn_loop(f, g, t, ...) updates g with the t     *)
(* passed in, recomputes t by rescale_berg from the f passed in and the    *)
(* new g, updates f with that recomputed t, recomputes t from the new f    *)
(* and the new g, and returns (f, g, t) with the second recomputed t.      *)
(* rescale_berg is called exactly twice.                                   *)
(***************************************************************************)
C3_GLoopRunningShift ==
    Done("g_sinkhorn_loop") =>
        LET cs == DirectCalls
            g  == ReturnOf(cs[2]) + 1
            t1 == Res(cs[3])
            f  == ReturnOf(cs[5]) + 1
            t2 == Res(cs[6])
            weights == <<Param("a"), Param("b"), Param("rho"), Rho2InUse>>
        IN  /\ NamesOf(cs) = <<"sinkx", "aprox_berg", "rescale_berg",
                               "sinky", "aprox_berg", "rescale_berg">>
            /\ mach.tape[cs[1]].args = <<Param("C"), Param("f"), Param("a"), Param("eps")>>
            \* g = -aprox_berg(-(g - t), eps, rho2), t the argument
            /\ IsOp(cs[2] - 2, "sub", <<Res(cs[1]), Param("t")>>)
            /\ IsOp(cs[2] - 1, "neg", <<cs[2] - 2>>)
            /\ mach.tape[cs[2]].args = <<cs[2] - 1, Param("eps"), Rho2InUse>>
            /\ IsOp(g, "neg", <<Res(cs[2])>>)
            /\ SubSeq(mach.tape[cs[3]].args, 1, 6) = <<Param("f"), g>> \o weights
            /\ mach.tape[cs[4]].args = <<Param("C"), g, Param("b"), Param("eps")>>
            \* f = -aprox_berg(-(f + t), eps, rho), t the recomputed shift
            /\ IsOp(cs[5] - 2, "add", <<Res(cs[4]), t1>>)
            /\ IsOp(cs[5] - 1, "neg", <<cs[5] - 2>>)
            /\ mach.tape[cs[5]].args = <<cs[5] - 1, Param("eps"), Param("rho")>>
            /\ IsOp(f, "neg", <<Res(cs[5])>>)
            /\ SubSeq(mach.tape[cs[6]].args, 1, 6) = <<f, g>> \o weights
            /\ ret = <<f, g, t2>>
            /\ t1 # Param("t") /\ t2 # t1
            /\ Cardinality({i \in 1..Len(mach.tape) :
                   mach.tape[i].op = "call" /\ mach.tape[i].lit = "rescale_berg"}) = 2

\* A call of g_sinkhorn_loop has returned its triple.
C3_Witness ==
    /\ Done("g_sinkhorn_loop")
    /\ Len(ret) = 3
    /\ mach.tape[ret[2]].sh = <<MaxLen>>
    /\ mach.tape[ret[3]].op = "sub"

\* The calls the call at entry i makes itself, and how many of them call fn.
CallsOf(i) == CallsIn(i + 1, ReturnOf(i), mach.tape[i].d + 1)

CountOf(i, fn) == Len(SelectSeq(CallsOf(i), LAMBDA c : mach.tape[c].lit = fn))

\* All the calls of fn inside the call at entry i, at any depth.
CountWithin(i, fn) ==
    Cardinality({c \in (i + 1)..ReturnOf(i) :
                    mach.tape[c].op = "call" /\ mach.tape[c].lit = fn})

\* The call of rescale_berg at entry i makes exactly nits Newton updates
\* t <- t - grad / hess, the first from init, and returns the last t.
NewtonUpdates(i) ==
    LET e  == mach.tape[i]
        N  == IntOf(e.args[7])
        cs == CallsOf(i)
        rho2 == IF e.args[6] = None THEN e.args[5] ELSE e.args[6]
        \* t after r updates
        TT(r) == IF r = 0 THEN e.args[8] ELSE ReturnOf(cs[2 * r]) + 2
    IN  /\ NamesOf(cs) = Repeat(<<"grad_invariant", "hess_invariant">>, N)
        /\ \A r \in 1..N :
             /\ mach.tape[cs[2 * r - 1]].args =
                    <<TT(r - 1)>> \o SubSeq(e.args, 1, 5) \o <<rho2>>
             /\ mach.tape[cs[2 * r]].args = mach.tape[cs[2 * r - 1]].args
             /\ IsOp(TT(r) - 1, "div", <<Res(cs[2 * r - 1]), Res(cs[2 * r])>>)
             /\ IsOp(TT(r), "sub", <<TT(r - 1), TT(r) - 1>>)
        /\ mach.tape[ReturnOf(i)].args = <<TT(N)>>
        /\ Cardinality({k \in i..ReturnOf(i) : mach.tape[k].d = e.d}) = 2 * N + 2

\* The call of log_lambertw at entry i makes exactly HalleySteps updates.
HalleyUpdates(i) ==
    /\ NamesOf(CallsOf(i)) = <<"init_lambertw">> \o Repeat(<<"a", "b">>, HalleySteps)
    /\ Cardinality({k \in i..ReturnOf(i) :
           mach.tape[k].d = mach.tape[i].d /\ mach.tape[k].op = "maximum"}) = HalleySteps

(***************************************************************************)
(* The counts of C4: in the run recorded, every call of rescale_berg makes *)
(* exactly nits Newton updates t <- t - grad / hess from init (nits = 0    *)
(* returns init), every call of log_lambertw 5 Halley updates, a call of   *)
(* h_sinkhorn_loop with nits = N calls rescale_berg 2 * N + 1 times, a     *)
(* call of g_sinkhorn_loop twice, a call of f_sinkhorn_loop never.         *)
(***************************************************************************)
FixedCounts ==
    \A i \in 1..Len(mach.tape) :
        mach.tape[i].op = "call" =>
            /\ mach.tape[i].lit = "rescale_berg" => NewtonUpdates(i)
            /\ mach.tape[i].lit = "log_lambertw" => HalleyUpdates(i)
            /\ mach.tape[i].lit = "h_sinkhorn_loop" =>
                   /\ CountOf(i, "rescale_berg") = 2 * IntOf(mach.tape[i].args[8]) + 1
                   /\ CountOf(i, "aprox_berg") = 2 * IntOf(mach.tape[i].args[8]) + 2
                   /\ CountWithin(i, "log_lambertw") = CountOf(i, "aprox_berg")
            /\ mach.tape[i].lit = "g_sinkhorn_loop" =>
                   /\ CountOf(i, "rescale_berg") = 2
                   /\ CountWithin(i, "log_lambertw") = 2
            /\ mach.tape[i].lit = "f_sinkhorn_loop" =>
                   /\ CountWithin(i, "rescale_berg") = 0
                   /\ CountWithin(i, "log_lambertw") = 2

\* A finished call of one of the five routines of C4 on shapes that match:
\* the loops are called on matching shapes only, rescale_berg on any.
C4Call ==
    /\ pc = "done"
    /\ call.fn \in {"f_sinkhorn_loop", "g_sinkhorn_loop", "h_sinkhorn_loop",
                    "rescale_berg", "log_lambertw"}
    /\ call.fn = "rescale_berg" =>
           /\ ShapeOf(mach, Param("a")) = ShapeOf(mach, Param("f"))
           /\ ShapeOf(mach, Param("b")) = ShapeOf(mach, Param("g"))

(***************************************************************************)
(* C4, as the specification states it: every call of f_sinkhorn_loop,      *)
(* g_sinkhorn_loop, h_sinkhorn_loop, rescale_berg and log_lambertw (on     *)
(* shapes that match) runs to its return and has made the counts above,    *)
(* whatever the values of eps, rho and rho2.  (It fails: with the Python   *)
(* floats eps = 0.0 and rho = 1.0 a loop raises ZeroDivisionError in its   *)
(* first aprox_berg, before any update.)                                   *)
(***************************************************************************)
C4_CountsWhateverTheValues ==
    C4Call => (~mach.err /\ FixedCounts)

(***************************************************************************)
(* C4, amended.  No routine stops on a condition computed from its data:   *)
(* every run that returns has made the counts above, whatever the shapes   *)
(* and values.  A run that does not return has raised, and raises on these *)
(* grounds only: log_lambertw (and init_lambertw) never; rescale_berg when *)
(* nits > 0 and a does not broadcast with f, or b with g (numpy's          *)
(* ValueError); a Sinkhorn loop, called on matching shapes, exactly when   *)
(* eps is the Python float 0.0 and rho, or the rho2 the run uses, is a     *)
(* Python float too: then rho / eps in aprox_berg is Python's division and *)
(* raises ZeroDivisionError.  With a numpy scalar for eps, or for both rho *)
(* and rho2, the division is numpy's and the run returns.                  *)
(***************************************************************************)
C4_FixedIterationCounts ==
    /\ (pc = "done" /\ call.fn \in {"init_lambertw", "log_lambertw"}) => ~mach.err
    /\ (pc = "done" /\ call.fn = "rescale_berg") =>
           (mach.err <=>
               /\ IntOf(Param("nits")) > 0
               /\ \/ ~Compatible(ShapeOf(mach, Param("a")), ShapeOf(mach, Param("f")))
                  \/ ~Compatible(ShapeOf(mach, Param("b")), ShapeOf(mach, Param("g"))))
    /\ (pc = "done" /\ call.fn \in {"f_sinkhorn_loop", "g_sinkhorn_loop", "h_sinkhorn_loop"}) =>
           (mach.err <=> /\ IsZero(mach, Param("eps"))
                         /\ IsPy(mach, Param("rho")) \/ IsPy(mach, Rho2InUse))
    /\ (pc = "done" /\ ~mach.err) => FixedCounts

\* rescale_berg was called with the largest explicit budget and its own
\* init, and returned after that many updates.
C4_Witness ==
    /\ Done("rescale_berg")
    /\ IntOf(Param("nits")) = MaxNits
    /\ Param("init") > 0
    /\ CountOf(call.nin + 1, "grad_invariant") = MaxNits
    /\ Len(ret) = 1

\* The array an operand is a view of: a[:, None] and b[None, :] share the
\* memory of a and b; every other operation allocates its result.
RECURSIVE Base(_)
Base(r) ==
    IF r > 0 /\ mach.tape[r].op \in {"colaxis", "rowaxis"}
    THEN Base(mach.tape[r].args[1])
    ELSE r

\* The objects the caller built and passed in are the entries 1..call.nin.
IsInput(r) == r \in 1..call.nin

\* The in-place writes of the run: z0[mask] = value.
Writes == {i \in 1..Len(mach.tape) : mach.tape[i].op = "setitem"}

(***************************************************************************)
(* C5.  Inputs are read-only: whatever routine was called, and also when   *)
(* it raised, no in-place write of the run has as its target an array the  *)
(* caller passed in (or a view of one), so x, f, g, a, b and C hold what   *)
(* they held; and every array returned is an object allocated during the   *)
(* call, not an input or a view of an input.                               *)
(***************************************************************************)
C5_InputsReadOnly ==
    pc = "done" =>
        /\ \A i \in Writes : ~IsInput(Base(mach.tape[i].args[1]))
        /\ \A k \in 1..Len(ret) :
               ShapeOf(mach, ret[k]) # <<>> =>
                   ret[k] > call.nin /\ ~IsInput(Base(ret[k]))

\* h_sinkhorn_loop has returned two arrays, and the seeds of its Lambert-W
\* solves were written in place.
C5_Witness ==
    /\ Done("h_sinkhorn_loop")
    /\ Writes # {}
    /\ Len(ret) = 2
    /\ ShapeOf(mach, ret[1]) = <<MaxLen>>
    /\ ShapeOf(mach, ret[2]) = <<MaxLen>>

\* The caller paired a weight vector with a potential of another length.
Mismatched ==
    \/ ShapeOf(mach, Param("a")) # ShapeOf(mach, Param("f"))
    \/ ShapeOf(mach, Param("b")) # ShapeOf(mach, Param("g"))

(***************************************************************************)
(* C6.  InvalidShape, as the specification states it: a call of            *)
(* rescale_berg, grad_invariant, hess_invariant or dual_score_ent whose a  *)
(* has not the length of f, or whose b has not the length of g, raises and *)
(* returns nothing.  (The source has no shape check: numpy raises only     *)
(* when the lengths cannot be broadcast; a vector of length 1 is stretched *)
(* and the call returns a value.)                                          *)
(***************************************************************************)
C6_MismatchFails ==
    (/\ pc = "done"
     /\ call.fn \in {"rescale_berg", "grad_invariant", "hess_invariant", "dual_score_ent"}
     /\ Mismatched)
        => mach.err /\ ret = <<>>

\* The routine called has a parameter rho2 and the caller did not pass it.
Rho2Omitted ==
    /\ pc = "done"
    /\ \E i \in 1..Len(Prog(call.fn).params) : Prog(call.fn).params[i] = "rho2"
    /\ \A i \in 1..Len(call.given) : call.given[i] # "rho2"

\* The same call on the same objects with rho2=rho passed explicitly.
WithRho2AsRho ==
    LET params == Prog(call.fn).params
        pos == CHOOSE i \in 1..Len(params) : params[i] = "rho2"
        args == [mach.tape[call.nin + 1].args EXCEPT ![pos] = Param("rho")]
    IN  Run(Invoke([EmptyMach EXCEPT !.tape = SubSeq(mach.tape, 1, call.nin)],
                   call.fn, args, params))

\* The run is, operation for operation, the run of the call with rho2=rho.
RunsAsWithRho ==
    \E x \in {WithRho2AsRho} :
        /\ x.err = mach.err
        /\ x.ret = ret
        /\ Len(x.tape) = Len(mach.tape)
        /\ \A i \in 1..Len(mach.tape) : i # call.nin + 1 => x.tape[i] = mach.tape[i]

\* The caller did not pass the parameter n.
Omitted(n) == \A i \in 1..Len(call.given) : call.given[i] # n

(***************************************************************************)
(* C7, as the specification states it: a call that does not supply rho2    *)
(* (and makes any use of it) is not carried out with another value put in  *)
(* its place; here, with rho.                                              *)
(***************************************************************************)
C7_NoSubstitute ==
    (Rho2Omitted /\ Len(DirectCalls) > 0) => ~RunsAsWithRho

(***************************************************************************)
(* C7, amended.  A call of dual_score_ent, rescale_berg, f_, g_ or         *)
(* h_sinkhorn_loop that does not supply rho2 is carried out with rho in    *)
(* its place: it is, operation for operation, the call with rho2=rho.  The *)
(* other implicit defaults are those of rescale_berg: nits (10 Newton      *)
(* updates) and init (0.).                                                 *)
(***************************************************************************)
C7_Rho2DefaultsToRho ==
    /\ Rho2Omitted => RunsAsWithRho
    /\ (pc = "done" /\ call.fn = "rescale_berg") =>
           /\ Omitted("nits") => Param("nits") = IntRef(RescaleDefaultNits)
           /\ Omitted("init") => Param("init") = Lit("0.")

\* g_sinkhorn_loop was called without rho2 and its update of g ran with rho.
C7_Witness ==
    /\ Done("g_sinkhorn_loop")
    /\ Rho2Omitted
    /\ Param("rho2") = None
    /\ mach.tape[DirectCalls[2]].args[3] = Param("rho")
    /\ mach.tape[DirectCalls[3]].args[6] = Param("rho")

\* The value every coordinate of the input entry r holds (np.full).
ValueOf(r) == mach.tape[r].args[1]

\* Entry r is np.maximum(..., 1e-17): each of its coordinates is >= 1e-17,
\* so w + log(w), increasing in w, is above LnClamp on each of them.
Clamped(r) ==
    /\ mach.tape[r].op = "maximum"
    /\ mach.tape[r].args[2] = Lit("1e-17")

(***************************************************************************)
(* C9, as the specification states it: for every real x the w returned by  *)
(* log_lambertw(x) satisfies w + log(w) = x to near machine precision.     *)
(* Stated on what the model holds of the values: it is not the case that   *)
(* w + log(w), bounded below by the floor of w, exceeds x by more than 1.  *)
(***************************************************************************)
C9_SolvesForEveryX ==
    Done("log_lambertw") =>
        ~ (Clamped(ret[1]) /\ LnClamp - ValueOf(Param("x")) >= 1)

\* What the elementwise operation op makes of two coordinates.
Arith(op, x, y) ==
    CASE op = "add" -> x + y
      [] op = "sub" -> x - y
      [] op = "mul" -> x * y
      [] op = "maximum" -> IF x >= y THEN x ELSE y

Vals == (-MaxVal)..MaxVal

(***************************************************************************)
(* C10.  h_sinkhorn_loop returns (f + t, g - t): both returned arrays are  *)
(* built from the unshifted potentials f and g (the results of the last    *)
(* proximal updates) and one and the same scalar t, the result of the last *)
(* rescale_berg, stretched over every coordinate; so, whatever the values  *)
(* of f_i, g_j and t, the returned f_i + g_j is the unshifted f_i + g_j    *)
(* and the gap C[i,j] - f_i - g_j is the unshifted one (in exact           *)
(* arithmetic).                                                            *)
(***************************************************************************)
C10_ShiftConservesSums ==
    Done("h_sinkhorn_loop") =>
        LET shF == mach.tape[ret[1]]
            shG == mach.tape[ret[2]]
            N == IntOf(Param("nits"))
            t == shF.args[2]
        IN  /\ Len(shF.args) = 2 /\ Len(shG.args) = 2
            /\ shF.args[1] = FOf(DirectCalls[4 * N + 4])
            /\ shG.args[1] = GOf(DirectCalls[2 * N + 2])
            /\ t = Res(DirectCalls[4 * N + 5])
            /\ shG.args[2] = t
            /\ ShapeOf(mach, t) = <<>>
            /\ shF.sh = ShapeOf(mach, shF.args[1])
            /\ shG.sh = ShapeOf(mach, shG.args[1])
            /\ \A vf \in Vals, vg \in Vals, vt \in Vals :
                 /\ Arith(shF.op, vf, vt) + Arith(shG.op, vg, vt) = vf + vg
                 /\ \A c \in Vals :
                      c - Arith(shF.op, vf, vt) - Arith(shG.op, vg, vt) = c - vf - vg

\* h_sinkhorn_loop has shifted potentials of different lengths by the t its
\* last rescale_berg computed.
C10_Witness ==
    /\ Done("h_sinkhorn_loop")
    /\ Len(ret) = 2
    /\ ShapeOf(mach, ret[1]) = <<MaxLen>>
    /\ ShapeOf(mach, ret[2]) = <<1>>
    /\ mach.tape[ret[1]].args[2] > call.nin
    /\ mach.tape[mach.tape[ret[1]].args[2]].op = "sub"

\* The value of an operand of a comparison on a coordinate where x is v.
Num(r, v) == IF r = Param("x") THEN v ELSE LitNum(r)

\* The boolean mask at entry r, on a coordinate where x is v.
RECURSIVE Holds(_, _)
Holds(r, v) ==
    LET e == mach.tape[r]
    IN  CASE e.op = "gt" -> Num(e.args[1], v) > Num(e.args[2], v)
          [] e.op = "lt" -> Num(e.args[1], v) < Num(e.args[2], v)
          [] e.op = "le" -> Num(e.args[1], v) <= Num(e.args[2], v)
          [] e.op = "ge" -> Num(e.args[1], v) >= Num(e.args[2], v)
          [] e.op = "and" -> Holds(e.args[1], v) /\ Holds(e.args[2], v)

\* Entry r is x[m] for a mask m that selects the coordinates mask selects.
SelectsAs(r, mask) ==
    /\ r > 0
    /\ mach.tape[r].op = "select"
    /\ mach.tape[r].args[1] = Param("x")
    /\ \A u \in XVals : Holds(mach.tape[r].args[2], u) <=> Holds(mask, u)

\* Entry r is np.exp(x[m]), m as above.
ExpSelectsAs(r, mask) ==
    /\ r > 0
    /\ mach.tape[r].op = "exp"
    /\ SelectsAs(mach.tape[r].args[1], mask)

\* The degree in the operand y of the polynomial entry r computes.
RECURSIVE Degree(_, _)
Degree(r, y) ==
    IF r = y THEN 1
    ELSE IF r <= 0 THEN 0
    ELSE LET e == mach.tape[r]
         IN  CASE e.op \in {"add", "sub"} ->
                    MaxOf(Degree(e.args[1], y), Degree(e.args[2], y))
               [] e.op = "mul" -> Degree(e.args[1], y) + Degree(e.args[2], y)
               [] e.op = "pow" ->
                    Degree(e.args[1], y)
                        * (IF IsInt(e.args[2]) THEN IntOf(e.args[2]) ELSE LitNum(e.args[2]))

\* The in-place writes of the run, in the order they happen.
WritesInOrder ==
    SelectSeq([k \in 1..Len(mach.tape) |-> k], LAMBDA i : mach.tape[i].op = "setitem")

(***************************************************************************)
(* C11.  init_lambertw(x) writes its seed z0 = np.zeros_like(x) four       *)
(* times.  On a coordinate where x is v exactly one of the first three     *)
(* masks holds: the first when v > 1, and it writes x; the second when     *)
(* v < -2, and it writes e^x (1 - e^x); the third when -2 <= v <= 1, both  *)
(* ends included, and it writes pade(e^x), a quotient of a polynomial of   *)
(* degree 3 by one of degree 2.  The fourth and last write puts 1e-6 where *)
(* z0 == 0.0, and z0 is returned right after it.                           *)
(***************************************************************************)
C11_SeedRegimes ==
    Done("init_lambertw") =>
        LET x  == Param("x")
            v  == ValueOf(x)
            ws == WritesInOrder
            Target(k) == mach.tape[ws[k]].args[1]
            Mask(k)   == mach.tape[ws[k]].args[2]
            Rhs(k)    == mach.tape[ws[k]].args[3]
            z0 == Target(1)
            pd == DirectCalls[1]
            q  == mach.tape[Res(pd)]
        IN  /\ Len(ws) = 4
            /\ IsOp(z0, "zeros_like", <<x>>)
            /\ \A k \in 1..4 : Target(k) = z0
            \* one regime for every coordinate
            /\ Cardinality({k \in 1..3 : Holds(Mask(k), v)}) = 1
            /\ Holds(Mask(1), v) <=> v > 1
            /\ Holds(Mask(2), v) <=> v < -2
            /\ Holds(Mask(3), v) <=> (-2 <= v /\ v <= 1)
            \* what each regime writes
            /\ SelectsAs(Rhs(1), Mask(1))
            /\ Rhs(2) > 0 /\ mach.tape[Rhs(2)].op = "mul"
            /\ ExpSelectsAs(mach.tape[Rhs(2)].args[1], Mask(2))
            /\ LET s == mach.tape[Rhs(2)].args[2]
               IN  /\ s > 0 /\ mach.tape[s].op = "sub"
                   /\ mach.tape[s].args[1] = Lit("1.0")
                   /\ ExpSelectsAs(mach.tape[s].args[2], Mask(2))
            /\ NamesOf(DirectCalls) = <<"pade">>
            /\ ExpSelectsAs(mach.tape[pd].args[1], Mask(3))
            /\ Rhs(3) = Res(pd)
            /\ q.op = "div"
            /\ Degree(q.args[1], mach.tape[pd].args[1]) = 3
            /\ Degree(q.args[2], mach.tape[pd].args[1]) = 2
            \* the floor of the zeros
            /\ IsOp(Mask(4), "eq", <<z0, Lit("0.0")>>)
            /\ Rhs(4) = Lit("1e-6")
            /\ ReturnOf(call.nin + 1) = ws[4] + 1
            /\ ret = <<z0>>

\* init_lambertw has seeded an x on the upper boundary of the middle regime.
C11_Witness ==
    /\ Done("init_lambertw")
    /\ ValueOf(Param("x")) = 1
    /\ Len(WritesInOrder) = 4
    /\ Holds(mach.tape[WritesInOrder[3]].args[2], 1)
    /\ ret # <<>>

\* The iterate of the call of log_lambertw at entry i after r updates: the
\* seed, then the result of the statement after the r-th call of b; cs are
\* the calls that call makes.
IterateIn(cs, r) ==
    IF r = 0 THEN Res(cs[1]) ELSE ReturnOf(cs[2 * r + 1]) + 5

IterateOf(i, r) == IterateIn(CallsOf(i), r)

\* Entry m is np.maximum(z - c / (1 - 0.5 * c * b(z)), 1e-17) for the
\* iterate z, c = a(z) the result of the call at ca, b(z) that of the call at cb.
HalleyUpdate(m, z, ca, cb) ==
    /\ mach.tape[ca].lit = "a" /\ mach.tape[ca].args = <<z>>
    /\ mach.tape[cb].lit = "b" /\ mach.tape[cb].args = <<z>>
    /\ IsOp(cb - 1, "mul", <<Lit("0.5"), Res(ca)>>)
    /\ IsOp(m - 4, "mul", <<cb - 1, Res(cb)>>)
    /\ IsOp(m - 3, "sub", <<IntRef(1), m - 4>>)
    /\ IsOp(m - 2, "div", <<Res(ca), m - 3>>)
    /\ IsOp(m - 1, "sub", <<z, m - 2>>)
    /\ IsOp(m, "maximum", <<m - 1, Lit("1e-17")>>)

(***************************************************************************)
(* C12.  Every call of log_lambertw, the direct ones and those aprox_berg  *)
(* makes, applies exactly 5 updates w <- max(w - a/(1 - 0.5*a*b), 1e-17),  *)
(* each on the iterate the one before left (the first on the seed of       *)
(* init_lambertw), and returns the fifth iterate.  Each iterate is the     *)
(* maximum of the Halley value and the floor: whatever the Halley value u  *)
(* and the positive floor fl, it is >= fl, hence > 0.                      *)
(***************************************************************************)
C12_IteratesStayPositive ==
    (pc = "done" /\ ~mach.err) =>
        \A i \in 1..Len(mach.tape) :
            (mach.tape[i].op = "call" /\ mach.tape[i].lit = "log_lambertw") =>
                \E cs \in {CallsOf(i)} :
                    /\ Len(cs) = 2 * HalleySteps + 1
                    /\ \A r \in 1..HalleySteps :
                         \E z \in {IterateIn(cs, r - 1)}, m \in {IterateIn(cs, r)} :
                             /\ HalleyUpdate(m, z, cs[2 * r], cs[2 * r + 1])
                             /\ mach.tape[m].sh = mach.tape[mach.tape[i].args[1]].sh
                             /\ \A u \in Vals, fl \in 1..MaxVal :
                                  /\ Arith(mach.tape[m].op, u, fl) >= fl
                                  /\ Arith(mach.tape[m].op, u, fl) > 0
                    /\ \E last \in {IterateIn(cs, HalleySteps)} :
                         /\ ReturnOf(i) = last + 1
                         /\ mach.tape[last + 1].args = <<last>>

\* log_lambertw has returned its fifth iterate for an x far below the range
\* where the floor is inactive, and for an x of several coordinates.
C12_Witness ==
    /\ Done("log_lambertw")
    /\ ValueOf(Param("x")) = -MaxX
    /\ ShapeOf(mach, ret[1]) = <<MaxLen>>
    /\ Clamped(ret[1])
    /\ ret[1] = IterateOf(call.nin + 1, HalleySteps)

\* The entries that have the object r among their operands.
Uses(r) ==
    {i \in 1..Len(mach.tape) :
        /\ mach.tape[i].op \notin {"input", "pyfloat"}
        /\ \E k \in 1..Len(mach.tape[i].args) : mach.tape[i].args[k] = r}

\* The same call on the same objects, the g passed in replaced by an array of
\* the shape sh.
WithOtherG(sh) ==
    Run(Invoke([EmptyMach EXCEPT
                   !.tape = [SubSeq(mach.tape, 1, call.nin) EXCEPT ![Param("g")].sh = sh]],
               call.fn, mach.tape[call.nin + 1].args, Prog(call.fn).params))

\* The run x is, from the call on, the run recorded on the tape.
SameRun(x) ==
    /\ x.err = mach.err
    /\ x.ret = ret
    /\ Len(x.tape) = Len(mach.tape)
    /\ \A i \in (call.nin + 1)..Len(mach.tape) : x.tape[i] = mach.tape[i]

(***************************************************************************)
(* C13.  g_sinkhorn_loop never reads the g it is given: no operation of    *)
(* the run has it as an operand, and the call with any other g, of any     *)
(* length, performs the same operations and returns the same triple.  The  *)
(* f given is read (by sinkx and by the first rescale_berg); the t given   *)
(* is read once, by the subtraction gs - t of the update of g; and both    *)
(* calls of rescale_berg start from init = 0. with the default budget, not *)
(* from the running t.  A call that raises (eps = 0.0) raises whatever g   *)
(* is.                                                                     *)
(***************************************************************************)
C13_GLoopIgnoresG ==
    /\ (pc = "done" /\ call.fn = "g_sinkhorn_loop") =>
           /\ Uses(Param("g")) = {call.nin + 1}
           /\ \A n \in Lens : \E x \in {WithOtherG(<<n>>)} : SameRun(x)
    /\ Done("g_sinkhorn_loop") =>
        LET cs == DirectCalls
        IN  /\ Uses(Param("t")) = {call.nin + 1, cs[2] - 2}
            /\ IsOp(cs[2] - 2, "sub", <<Res(cs[1]), Param("t")>>)
            /\ {cs[1], cs[3]} \subseteq Uses(Param("f"))
            /\ \A k \in {3, 6} :
                 /\ mach.tape[cs[k]].lit = "rescale_berg"
                 /\ mach.tape[cs[k]].args[7] = IntRef(RescaleDefaultNits)
                 /\ mach.tape[cs[k]].args[8] = Lit("0.")

\* g_sinkhorn_loop has returned its triple for a g of several coordinates,
\* and the same call with a g of one coordinate is the same run.
C13_Witness ==
    /\ Done("g_sinkhorn_loop")
    /\ ShapeOf(mach, Param("g")) = <<MaxLen>>
    /\ Len(ret) = 3
    /\ SameRun(WithOtherG(<<1>>))
====
